---------------------------- MODULE Spec2Model ----------------------------
(***************************************************************************)
(* Model of graph/src/components/ethereum/network.rs: the capability       *)
(* ordering of NodeCapabilities, the per-network adapter pool              *)
(* (EthereumNetworkAdapters), the registry (EthereumNetworks) and the      *)
(* retry executor every forwarded RPC operation runs through.              *)
(***************************************************************************)
EXTENDS Integers, Sequences, FiniteSets, TLC

VARIABLES networks, last, result, run

vars == <<networks, last, result, run>>

(***************************************************************************)
(* Bounds of the model.                                                    *)
(***************************************************************************)
MaxEntries == 2

MaxOther == 1

MaxPoolLen == 4

MaxExecPool == 3

\* Largest mainnet pool of a registry whose calls are checked for termination.
MaxFairPool == 2

Names == {"mainnet", "rinkeby"}

\* The endpoint handles (the shared Arc) insert is called with.
Handles == {1, 2}

(***************************************************************************)
(* NodeCapabilities and its ordering.                                      *)
(***************************************************************************)
NodeCapabilities == [archive : BOOLEAN, traces : BOOLEAN]

\* bool::cmp of the standard library: false < true.
BoolCmp(x, y) ==
    IF x = y THEN "Equal" ELSE IF y THEN "Less" ELSE "Greater"

\* A lexicographic ordering, as a derived Ord would give.
cmp_lexicographic(self, other) ==
    IF BoolCmp(self.archive, other.archive) # "Equal"
    THEN BoolCmp(self.archive, other.archive)
    ELSE BoolCmp(self.traces, other.traces)

\* The match with the arms (Greater, _) and (_, Greater) first.
cmp_greater_first(self, other) ==
    LET a == BoolCmp(self.archive, other.archive)
        t == BoolCmp(self.traces, other.traces)
    IN  CASE a = "Greater" \/ t = "Greater" -> "Greater"
          [] a = "Equal" /\ t = "Equal" -> "Equal"
          [] OTHER -> "Less"

\* impl Ord for NodeCapabilities: the match arms, first match wins.
cmp(self, other) ==
    LET a == BoolCmp(self.archive, other.archive)
        t == BoolCmp(self.traces, other.traces)
    IN  CASE a = "Greater" /\ t = "Greater" -> "Greater"
          [] a = "Greater" /\ t = "Equal" -> "Greater"
          [] a = "Equal" /\ t = "Greater" -> "Greater"
          [] a = "Equal" /\ t = "Equal" -> "Equal"
          [] a = "Less" -> "Less"
          [] OTHER -> "Less"

\* impl PartialOrd: Some(self.cmp(other)); "None" never occurs.
partial_cmp(self, other) == cmp(self, other)

\* The provided PartialOrd::ge: partial_cmp is Greater or Equal.
ge(self, other) == partial_cmp(self, other) \in {"Greater", "Equal"}

\* The provided PartialOrd::lt: partial_cmp is Less.
lt(self, other) == partial_cmp(self, other) = "Less"

(***************************************************************************)
(* EthereumNetworkAdapter and the pool EthereumNetworkAdapters.            *)
(***************************************************************************)
\* An entry of a pool.  adapter is the identity of the shared endpoint handle
\* (the Arc).
EthereumNetworkAdapter(capabilities, adapter) ==
    [capabilities |-> capabilities, adapter |-> adapter]

Ok(v) == [tag |-> "Ok", value |-> v]

Err(kind, detail) == [tag |-> "Err", value |-> [kind |-> kind, detail |-> detail]]

\* The filter of cheapest_with and sufficient_adapters.
Sufficient(adapters, required_capabilities) ==
    LET Test(adapter) == ge(adapter.capabilities, required_capabilities)
    IN  SelectSeq(adapters, Test)

\* A filter that keeps the entries the requirement dominates.
sufficient_adapters_reversed(adapters, required_capabilities) ==
    LET Test(adapter) == ge(required_capabilities, adapter.capabilities)
        sufficient == SelectSeq(adapters, Test)
    IN  IF sufficient = <<>>
        THEN Err("NoEligibleEndpoint", required_capabilities)
        ELSE Ok(sufficient)

\* Returns the whole pool as soon as one entry satisfies the requirement.
sufficient_adapters_unfiltered(adapters, required_capabilities) ==
    IF Sufficient(adapters, required_capabilities) = <<>>
    THEN Err("NoEligibleEndpoint", required_capabilities)
    ELSE Ok(adapters)

\* The filter without the is_empty check.
sufficient_adapters_unchecked(adapters, required_capabilities) ==
    Ok(Sufficient(adapters, required_capabilities))

sufficient_adapters(adapters, required_capabilities) ==
    LET sufficient == Sufficient(adapters, required_capabilities)
    IN  IF sufficient = <<>>
        THEN Err("NoEligibleEndpoint", required_capabilities)
        ELSE Ok(sufficient)

\* A draw over the whole pool instead of the matching adapters.
cheapest_with_unfiltered(adapters, required_capabilities) ==
    IF Sufficient(adapters, required_capabilities) = <<>>
    THEN {Err("NoEligibleEndpoint", required_capabilities)}
    ELSE {Ok(adapters[i].adapter) : i \in 1..Len(adapters)}

\* cheapest_with: every result the random draw can produce.
cheapest_with(adapters, required_capabilities) ==
    LET sufficient == Sufficient(adapters, required_capabilities)
    IN  IF sufficient = <<>>
        THEN {Err("NoEligibleEndpoint", required_capabilities)}
        ELSE {Ok(sufficient[i].adapter) : i \in 1..Len(sufficient)}

None == [tag |-> "None"]

Some(v) == [tag |-> "Some", value |-> v]

cheapest(adapters) ==
    IF adapters = <<>> THEN None ELSE Some(adapters[1].adapter)

(***************************************************************************)
(* slice::sort_by_key as called by EthereumNetworks::sort.  It is the      *)
(* standard library's stable sort with is_less(a, b) == key(a).lt(key(b)). *)
(* Pools are short (at most 20 entries), where the library sorts by        *)
(* insertion: releases before 1.81 insert each element at the head of the  *)
(* sorted suffix (insert_head, right to left), later ones insert it at the *)
(* tail of the sorted prefix (insert_tail, left to right).  The ordering   *)
(* of NodeCapabilities is not total, so the two can arrange a pool         *)
(* differently; both are outcomes of the sort.                             *)
(***************************************************************************)
SortImpls == {"insert_head", "insert_tail"}

is_less(a, b) == lt(a.capabilities, b.capabilities)

RECURSIVE insert_head(_, _)
\* v[0] = x is moved right past every leading element of s that is less.
insert_head(x, s) ==
    IF s = <<>> \/ ~is_less(s[1], x)
    THEN <<x>> \o s
    ELSE <<s[1]>> \o insert_head(x, Tail(s))

RECURSIVE insert_tail(_, _)
\* x is moved left past every trailing element of s it is less than.
insert_tail(s, x) ==
    IF s = <<>> \/ ~is_less(x, s[Len(s)])
    THEN Append(s, x)
    ELSE Append(insert_tail(SubSeq(s, 1, Len(s) - 1), x), s[Len(s)])

RECURSIVE sort_head(_)
sort_head(v) ==
    IF v = <<>> THEN <<>> ELSE insert_head(v[1], sort_head(Tail(v)))

RECURSIVE sort_tail(_)
sort_tail(v) ==
    IF v = <<>>
    THEN <<>>
    ELSE insert_tail(sort_tail(SubSeq(v, 1, Len(v) - 1)), v[Len(v)])

\* Leaves the pool in insertion order.
sort_by_key_noop(adapters, impl) == adapters

RECURSIVE dedup_by_key(_)
dedup_by_key(v) ==
    IF Len(v) <= 1
    THEN v
    ELSE IF v[1].capabilities = v[2].capabilities
         THEN dedup_by_key(Tail(v))
         ELSE <<v[1]>> \o dedup_by_key(Tail(v))

\* Sorts, then drops entries whose capabilities repeat the previous one's.
sort_by_key_dedup(adapters, impl) ==
    dedup_by_key(IF impl = "insert_head" THEN sort_head(adapters)
                 ELSE sort_tail(adapters))

sort_by_key(adapters, impl) ==
    IF impl = "insert_head" THEN sort_head(adapters) ELSE sort_tail(adapters)

(***************************************************************************)
(* EthereumNetworks: the registry, a map from network name to its pool.    *)
(***************************************************************************)
new == [n \in {} |-> <<>>]

\* Starts a fresh pool for the name on every call.
insert_overwrite(nets, name, capabilities, adapter) ==
    [n \in DOMAIN nets \cup {name} |->
        IF n = name
        THEN <<EthereumNetworkAdapter(capabilities, adapter)>>
        ELSE nets[n]]

\* entry(name).or_insert(empty pool), then push.
insert(nets, name, capabilities, adapter) ==
    [n \in DOMAIN nets \cup {name} |->
        IF n = name
        THEN Append(IF name \in DOMAIN nets THEN nets[name] ELSE <<>>,
                    EthereumNetworkAdapter(capabilities, adapter))
        ELSE nets[n]]

\* Appends the incoming pool to the existing one (a union of the pools).
extend_append(nets, other_networks) ==
    [n \in DOMAIN nets \cup DOMAIN other_networks |->
        (IF n \in DOMAIN nets THEN nets[n] ELSE <<>>)
            \o (IF n \in DOMAIN other_networks THEN other_networks[n] ELSE <<>>)]

\* HashMap::extend: every (name, pool) of the other map is inserted, and an
\* insert under an existing key replaces its value.
extend(nets, other_networks) ==
    [n \in DOMAIN nets \cup DOMAIN other_networks |->
        IF n \in DOMAIN other_networks THEN other_networks[n] ELSE nets[n]]

sort(nets, impl) ==
    [n \in DOMAIN nets |-> sort_by_key(nets[n], impl)]

\* Falls back to an arbitrary registered pool when the name is unknown.
adapters_with_capabilities_fallback(nets, network_name, requirements) ==
    IF network_name \in DOMAIN nets
    THEN sufficient_adapters(nets[network_name], requirements)
    ELSE IF DOMAIN nets = {}
         THEN Err("NetworkNotSupported", network_name)
         ELSE sufficient_adapters(nets[CHOOSE n \in DOMAIN nets : TRUE],
                                  requirements)

adapters_with_capabilities(nets, network_name, requirements) ==
    IF network_name \notin DOMAIN nets
    THEN Err("NetworkNotSupported", network_name)
    ELSE sufficient_adapters(nets[network_name], requirements)

\* adapter_with_capabilities: every result the random draw can produce.
adapter_with_capabilities(nets, network_name, requirements) ==
    IF network_name \notin DOMAIN nets
    THEN {Err("NetworkNotSupported", network_name)}
    ELSE cheapest_with(nets[network_name], requirements)

(***************************************************************************)
(* Inputs of the operations, drawn from bounded sets.                      *)
(***************************************************************************)
RECURSIVE SumLen(_, _)
SumLen(nets, S) ==
    IF S = {}
    THEN 0
    ELSE LET n == CHOOSE m \in S : TRUE
         IN  Len(nets[n]) + SumLen(nets, S \ {n})

TotalEntries(nets) == SumLen(nets, DOMAIN nets)

\* Non-empty pools of at most k entries.
Pools(k) ==
    UNION {[1..n -> {EthereumNetworkAdapter(c, h) : c \in NodeCapabilities, h \in Handles}] :
           n \in 1..k}

\* The registries insert can build with at most k calls: every registered
\* name has a non-empty pool.
RegistriesUpTo(k) ==
    {r \in UNION {[S -> Pools(k)] : S \in SUBSET Names} : TotalEntries(r) <= k}

OtherRegistries == RegistriesUpTo(MaxOther)

NoEntry == EthereumNetworkAdapter([archive |-> FALSE, traces |-> FALSE], 0)

NoResult == [op |-> "none", name |-> "", required |-> NoEntry.capabilities, value |-> None]

NoRun == [pc |-> "idle"]

(***************************************************************************)
(* Spec: building the registry at startup.  last records the mutating      *)
(* operation that produced the current registry, result what the last      *)
(* read returned.                                                          *)
(***************************************************************************)
Init ==
    /\ networks = new
    /\ last = [op |-> "new", name |-> "", entry |-> NoEntry, other |-> new,
               replaced |-> new]
    /\ result = NoResult
    /\ run = NoRun

Insert(name, capabilities, adapter) ==
    /\ TotalEntries(networks) < MaxEntries
    /\ networks' = insert(networks, name, capabilities, adapter)
    /\ last' = [op |-> "insert", name |-> name,
                entry |-> EthereumNetworkAdapter(capabilities, adapter),
                other |-> new, replaced |-> new]
    /\ result' = NoResult
    /\ UNCHANGED run

\* replaced records, for the names present in both registries, the length of
\* the pool the registry had before.
Extend(other_networks) ==
    /\ TotalEntries(extend(networks, other_networks)) <= MaxEntries
    /\ networks' = extend(networks, other_networks)
    /\ last' = [op |-> "extend", name |-> "", entry |-> NoEntry,
                other |-> other_networks,
                replaced |-> [n \in DOMAIN networks \cap DOMAIN other_networks |->
                                 Len(networks[n])]]
    /\ result' = NoResult
    /\ UNCHANGED run

Sort(impl) ==
    /\ networks' = sort(networks, impl)
    /\ last' = [op |-> "sort", name |-> "", entry |-> NoEntry, other |-> new,
                replaced |-> new]
    /\ result' = NoResult
    /\ UNCHANGED run

Cheapest(name) ==
    /\ name \in DOMAIN networks
    /\ result' = [op |-> "cheapest", name |-> name,
                  required |-> NoEntry.capabilities,
                  value |-> cheapest(networks[name])]
    /\ UNCHANGED <<networks, last, run>>

InsertStep ==
    \E name \in Names, capabilities \in NodeCapabilities, adapter \in Handles :
        Insert(name, capabilities, adapter)

ExtendStep == \E other_networks \in OtherRegistries : Extend(other_networks)

SortStep == \E impl \in SortImpls : Sort(impl)

CheapestStep == \E name \in Names : Cheapest(name)

Next == InsertStep \/ ExtendStep \/ SortStep \/ CheapestStep

Spec == Init /\ [][Next]_vars

(***************************************************************************)
(* SpecLookup: reads on a registry after startup.  The registry is any of  *)
(* the frozen registries below and is not mutated; each read leaves what   *)
(* it returned in result.                                                  *)
(***************************************************************************)
\* Sequences of 1..k capability sets.
CapabilitySeqs(k) == UNION {[1..n -> NodeCapabilities] : n \in 1..k}

\* Registries as startup leaves them, every entry with an endpoint of its
\* own: "mainnet" is absent or has a pool of 1..k entries (entry i holds
\* endpoint i), "rinkeby" is absent or has one entry (endpoint 0).  Pools
\* are in any order: sort is a convention the registry does not enforce.
FrozenRegistries(k) ==
    {[n \in S |->
        IF n = "mainnet"
        THEN [i \in 1..Len(c) |-> EthereumNetworkAdapter(c[i], i)]
        ELSE <<EthereumNetworkAdapter(r, 0)>>] :
     S \in SUBSET Names, c \in CapabilitySeqs(k), r \in NodeCapabilities}

Frozen == [op |-> "frozen", name |-> "", entry |-> NoEntry, other |-> new,
           replaced |-> new]

LookupInit ==
    /\ networks \in FrozenRegistries(MaxPoolLen)
    /\ last = Frozen
    /\ result = NoResult
    /\ run = NoRun

\* a >= b and a.cmp(b) on two capability sets.
Compare(a, b) ==
    /\ result = NoResult
    /\ result' = [op |-> "cmp", name |-> "", required |-> b,
                  value |-> [self |-> a, cmp |-> cmp(a, b), ge |-> ge(a, b)]]
    /\ UNCHANGED <<networks, last, run>>

SufficientAdapters(name, required_capabilities) ==
    /\ result = NoResult
    /\ name \in DOMAIN networks
    /\ result' = [op |-> "sufficient_adapters", name |-> name,
                  required |-> required_capabilities,
                  value |-> sufficient_adapters(networks[name],
                                                required_capabilities)]
    /\ UNCHANGED <<networks, last, run>>

CheapestWith(name, required_capabilities) ==
    /\ result = NoResult
    /\ name \in DOMAIN networks
    /\ \E r \in cheapest_with(networks[name], required_capabilities) :
          result' = [op |-> "cheapest_with", name |-> name,
                     required |-> required_capabilities, value |-> r]
    /\ UNCHANGED <<networks, last, run>>

AdapterWithCapabilities(network_name, requirements) ==
    /\ result = NoResult
    /\ \E r \in adapter_with_capabilities(networks, network_name, requirements) :
          result' = [op |-> "adapter_with_capabilities", name |-> network_name,
                     required |-> requirements, value |-> r]
    /\ UNCHANGED <<networks, last, run>>

AdaptersWithCapabilities(network_name, requirements) ==
    /\ result = NoResult
    /\ run.pc = "idle"
    /\ result' = [op |-> "adapters_with_capabilities", name |-> network_name,
                  required |-> requirements,
                  value |-> adapters_with_capabilities(networks, network_name,
                                                       requirements)]
    /\ UNCHANGED <<networks, last, run>>

CompareStep == \E a \in NodeCapabilities, b \in NodeCapabilities : Compare(a, b)

SufficientAdaptersStep ==
    \E name \in Names, required \in NodeCapabilities :
        SufficientAdapters(name, required)

CheapestWithStep ==
    \E name \in Names, required \in NodeCapabilities : CheapestWith(name, required)

AdapterWithCapabilitiesStep ==
    \E name \in Names, required \in NodeCapabilities :
        AdapterWithCapabilities(name, required)

AdaptersWithCapabilitiesStep ==
    \E name \in Names, required \in NodeCapabilities :
        AdaptersWithCapabilities(name, required)

LookupNext ==
    \/ CompareStep
    \/ SufficientAdaptersStep
    \/ CheapestWithStep
    \/ AdapterWithCapabilitiesStep
    \/ AdaptersWithCapabilitiesStep

SpecLookup == LookupInit /\ [][LookupNext]_vars

(***************************************************************************)
(* SpecExec: one request.  The caller looks the pool up with               *)
(* adapters_with_capabilities and calls an operation of the returned       *)
(* EthereumNetworkAdapters, which forwards it through                      *)
(*   retry(label, logger).limit(adapters.len()).timeout_secs(20).run(f).   *)
(* run is the state of that call: pc, the operation, the cloned pool, the  *)
(* attempt limit, the attempts started, the entry the attempt in flight    *)
(* was made against, the <<entry index, outcome>> pairs of the attempts    *)
(* made, and the value the call returned.                                  *)
(***************************************************************************)
\* The forwarded operations, by how they convert the executor's error.
\* These end with map_err(|e| e.into_inner().unwrap_or_else(|| message)).
MapErrOps ==
    {"latest_block_header", "latest_block", "load_full_block",
     "block_pointer_from_number"}

\* These end with from_err(), or return the executor's future as it is
\* (contract_call, load_blocks, block_range_to_ptrs).
FromErrOps ==
    {"net_identifiers", "load_block", "block_by_hash", "block_by_number",
     "block_hash_by_block_number", "uncles", "is_on_main_chain",
     "calls_in_block", "contract_call", "load_blocks", "block_range_to_ptrs"}

Ops == MapErrOps \cup FromErrOps

\* An attempt budget one larger than the pool.
RetryLimit_plus_one(adapters) == Len(adapters) + 1

\* .limit(adapters.len())
RetryLimit(adapters) == Len(adapters)

TimeoutSecs == 20

\* A retry configured with no_timeout().
RetryTimeout_none == None

\* .timeout_secs(20)
RetryTimeout == Some(TimeoutSecs)

\* A closure that takes the last entry of the pool.
TryIt_last(adapters) == Len(adapters)

\* The closure given to run: adapters.iter().next().unwrap() is the first
\* entry of the pool, on every attempt.  The index of the entry invoked.
TryIt(adapters) == 1

\* The executor's error type, TimeoutError: the timeout of the attempt
\* elapsed, or the operation failed with the remote error of that attempt.
Elapsed(attempt) == [kind |-> "Elapsed", attempt |-> attempt]

Inner(attempt) == [kind |-> "Inner", attempt |-> attempt]

\* Replaces whatever the executor reports by the synthesized message.
FinalError_swallow(op, outcome) ==
    IF op \in MapErrOps
    THEN Err("AggregateTimeout", [op |-> op, attempt |-> 0])
    ELSE IF outcome.kind = "Inner"
         THEN Err("Remote", [op |-> op, attempt |-> outcome.attempt])
         ELSE Err("Elapsed", [op |-> op, attempt |-> outcome.attempt])

\* The error of a call whose last attempt failed: a remote error is passed
\* on; an elapsed timeout becomes the synthesized message where the
\* operation maps it (into_inner().unwrap_or_else), the timeout error itself
\* where it only converts it (from_err).
FinalError(op, outcome) ==
    IF outcome.kind = "Inner"
    THEN Err("Remote", [op |-> op, attempt |-> outcome.attempt])
    ELSE IF op \in MapErrOps
         THEN Err("AggregateTimeout", [op |-> op, attempt |-> 0])
         ELSE Err("Elapsed", [op |-> op, attempt |-> outcome.attempt])

ExecInit ==
    /\ networks \in FrozenRegistries(MaxExecPool)
    /\ last = Frozen
    /\ result = NoResult
    /\ run = NoRun

\* Further fields of run: timeout is the per-attempt timeout, outcome how the
\* last ended attempt ended, pending the attempts awaited, abandoned the
\* attempts whose timeout fired while the transport was still working on
\* them, from the attempt whose result the call returned.
StartCall(op) ==
    /\ run.pc = "idle"
    /\ result.op = "adapters_with_capabilities"
    /\ result.value.tag = "Ok"
    /\ run' = [pc |-> "ready", op |-> op, adapters |-> result.value.value,
               limit |-> RetryLimit(result.value.value), attempt_count |-> 0,
               current |-> 0, seen |-> {}, value |-> None,
               timeout |-> RetryTimeout, outcome |-> "none", pending |-> {},
               abandoned |-> {}, from |-> 0]
    /\ UNCHANGED <<networks, last, result>>

\* An attempt starts: the closure is called and raced against the timeout.
StartAttempt ==
    /\ run.pc = "ready"
    /\ run' = [run EXCEPT !.pc = "waiting",
                          !.attempt_count = @ + 1,
                          !.current = TryIt(run.adapters),
                          !.pending = @ \cup {run.attempt_count + 1}]
    /\ UNCHANGED <<networks, last, result>>

\* Treats a successful attempt like a failed one: retries while attempts
\* remain.
AttemptOk_retries ==
    /\ run.pc = "waiting"
    /\ run' = [run EXCEPT
                 !.pc = IF run.attempt_count < run.limit THEN "ready" ELSE "done",
                 !.seen = @ \cup {<<run.current, "ok">>},
                 !.outcome = "ok",
                 !.pending = @ \ {run.attempt_count},
                 !.from = run.attempt_count,
                 !.value = Ok(run.adapters[run.current].adapter)]
    /\ UNCHANGED <<networks, last, result>>

\* The attempt completes before its timeout: the call returns its result.
AttemptOk ==
    /\ run.pc = "waiting"
    /\ run' = [run EXCEPT !.pc = "done",
                          !.seen = @ \cup {<<run.current, "ok">>},
                          !.outcome = "ok",
                          !.pending = @ \ {run.attempt_count},
                          !.from = run.attempt_count,
                          !.value = Ok(run.adapters[run.current].adapter)]
    /\ UNCHANGED <<networks, last, result>>

\* The attempt fails (outcome "error") or its timeout fires ("timeout"):
\* retry while attempts remain, else the call fails.  An attempt whose
\* timeout fired is abandoned: the executor no longer awaits it.
AttemptFails(outcome) ==
    /\ run.pc = "waiting"
    /\ outcome = "timeout" => run.timeout # None
    /\ run' = [run EXCEPT
                 !.pc = IF run.attempt_count < run.limit THEN "ready" ELSE "done",
                 !.seen = @ \cup {<<run.current, outcome>>},
                 !.outcome = outcome,
                 !.pending = @ \ {run.attempt_count},
                 !.abandoned = IF outcome = "timeout"
                               THEN @ \cup {run.attempt_count}
                               ELSE @,
                 !.value = IF run.attempt_count < run.limit
                           THEN None
                           ELSE FinalError(run.op,
                                           IF outcome = "timeout"
                                           THEN Elapsed(run.attempt_count)
                                           ELSE Inner(run.attempt_count))]
    /\ UNCHANGED <<networks, last, result>>

\* Hands the late result of an abandoned attempt to the caller.
LateResult_applied(attempt) ==
    /\ run.pc # "idle"
    /\ attempt \in run.abandoned
    /\ run' = [run EXCEPT !.abandoned = @ \ {attempt},
                          !.pc = "done",
                          !.from = attempt,
                          !.value = Ok(run.adapters[TryIt(run.adapters)].adapter)]
    /\ UNCHANGED <<networks, last, result>>

\* The transport answers an attempt that was abandoned at its timeout:
\* nobody awaits the answer, it is dropped.
LateResult(attempt) ==
    /\ run.pc # "idle"
    /\ attempt \in run.abandoned
    /\ run' = [run EXCEPT !.abandoned = @ \ {attempt}]
    /\ UNCHANGED <<networks, last, result>>

StartCallStep == \E op \in Ops : StartCall(op)

AttemptErr == AttemptFails("error")

AttemptTimeout == AttemptFails("timeout")

LateResultStep == \E attempt \in 1..(MaxExecPool + 1) : LateResult(attempt)

ExecNext ==
    \/ AdaptersWithCapabilitiesStep
    \/ StartCallStep
    \/ StartAttempt
    \/ AttemptOk
    \/ AttemptErr
    \/ AttemptTimeout
    \/ LateResultStep

SpecExec == ExecInit /\ [][ExecNext]_vars

\* The executor is scheduled (an attempt that can start does start) and the
\* timer of an attempt fires; an endpoint need never answer.
FairInit ==
    /\ networks \in FrozenRegistries(MaxFairPool)
    /\ last = Frozen
    /\ result = NoResult
    /\ run = NoRun

SpecExecFair ==
    FairInit /\ [][ExecNext]_vars /\ WF_vars(StartAttempt) /\ WF_vars(AttemptTimeout)

(***************************************************************************)
(* SpecCalls: the calls of several callers on one registry.  Every call    *)
(* clones the pool it is issued on and builds its own retry (let adapters  *)
(* = self.adapters.clone(); retry(..)), so a call has no state in common   *)
(* with another call.  Here run maps each caller to the record of its      *)
(* call, with the fields and the steps of the single call of SpecExec.     *)
(***************************************************************************)
MaxCallPool == 2

Callers == {1, 2}

\* The registries of SpecCalls: mainnet with a pool of entries that have
\* both capabilities, the handle of an entry being its index.
CallRegistries ==
    {[n \in {"mainnet"} |->
         [i \in 1..k |->
             EthereumNetworkAdapter([archive |-> TRUE, traces |-> TRUE], i)]] :
       k \in 1..MaxCallPool}

CallsInit ==
    /\ networks \in CallRegistries
    /\ last = Frozen
    /\ result = NoResult
    /\ run = [c \in Callers |-> NoRun]

\* networks.adapters_with_capabilities(name, required) followed, when it is
\* Ok, by a forwarded operation on the returned pool.
CallStart(c, op, network_name, requirements) ==
    LET found == adapters_with_capabilities(networks, network_name, requirements)
    IN  /\ run[c].pc = "idle"
        /\ found.tag = "Ok"
        /\ run' = [run EXCEPT ![c] =
                     [pc |-> "ready", op |-> op, adapters |-> found.value,
                      limit |-> RetryLimit(found.value), attempt_count |-> 0,
                      current |-> 0, seen |-> {}, value |-> None,
                      timeout |-> RetryTimeout, outcome |-> "none",
                      pending |-> {}, abandoned |-> {}, from |-> 0]]
        /\ UNCHANGED <<networks, last, result>>

\* Starts the next attempt of the call while its previous one is awaited.
CallStartAttempt_hedged(c) ==
    /\ run[c].pc \in {"ready", "waiting"}
    /\ run[c].attempt_count < run[c].limit
    /\ run' = [run EXCEPT ![c].pc = "waiting",
                          ![c].attempt_count = @ + 1,
                          ![c].current = TryIt(run[c].adapters),
                          ![c].pending = @ \cup {run[c].attempt_count + 1}]
    /\ UNCHANGED <<networks, last, result>>

\* StartAttempt, for the call of caller c.
CallStartAttempt(c) ==
    /\ run[c].pc = "ready"
    /\ run' = [run EXCEPT ![c].pc = "waiting",
                          ![c].attempt_count = @ + 1,
                          ![c].current = TryIt(run[c].adapters),
                          ![c].pending = @ \cup {run[c].attempt_count + 1}]
    /\ UNCHANGED <<networks, last, result>>

\* AttemptOk, for the call of caller c.
CallAttemptOk(c) ==
    /\ run[c].pc = "waiting"
    /\ run' = [run EXCEPT ![c].pc = "done",
                          ![c].seen = @ \cup {<<run[c].current, "ok">>},
                          ![c].outcome = "ok",
                          ![c].pending = @ \ {run[c].attempt_count},
                          ![c].from = run[c].attempt_count,
                          ![c].value =
                              Ok(run[c].adapters[run[c].current].adapter)]
    /\ UNCHANGED <<networks, last, result>>

\* AttemptFails, for the call of caller c.
CallAttemptFails(c, outcome) ==
    /\ run[c].pc = "waiting"
    /\ outcome = "timeout" => run[c].timeout # None
    /\ run' = [run EXCEPT
                 ![c].pc = IF run[c].attempt_count < run[c].limit
                           THEN "ready" ELSE "done",
                 ![c].seen = @ \cup {<<run[c].current, outcome>>},
                 ![c].outcome = outcome,
                 ![c].pending = @ \ {run[c].attempt_count},
                 ![c].abandoned = IF outcome = "timeout"
                                  THEN @ \cup {run[c].attempt_count}
                                  ELSE @,
                 ![c].value = IF run[c].attempt_count < run[c].limit
                              THEN None
                              ELSE FinalError(run[c].op,
                                              IF outcome = "timeout"
                                              THEN Elapsed(run[c].attempt_count)
                                              ELSE Inner(run[c].attempt_count))]
    /\ UNCHANGED <<networks, last, result>>

\* LateResult, for the call of caller c.
CallLateResult(c, attempt) ==
    /\ run[c].pc # "idle"
    /\ attempt \in run[c].abandoned
    /\ run' = [run EXCEPT ![c].abandoned = @ \ {attempt}]
    /\ UNCHANGED <<networks, last, result>>

CallStartStep ==
    \E c \in Callers, op \in Ops, network_name \in Names,
       requirements \in NodeCapabilities :
        CallStart(c, op, network_name, requirements)

CallStartAttemptStep == \E c \in Callers : CallStartAttempt(c)

CallAttemptOkStep == \E c \in Callers : CallAttemptOk(c)

CallAttemptErr == \E c \in Callers : CallAttemptFails(c, "error")

CallAttemptTimeout == \E c \in Callers : CallAttemptFails(c, "timeout")

CallLateResultStep ==
    \E c \in Callers, attempt \in 1..(MaxCallPool + 1) : CallLateResult(c, attempt)

CallsNext ==
    \/ CallStartStep
    \/ CallStartAttemptStep
    \/ CallAttemptOkStep
    \/ CallAttemptErr
    \/ CallAttemptTimeout
    \/ CallLateResultStep

SpecCalls == CallsInit /\ [][CallsNext]_vars

(***************************************************************************)
(* Parsing and displaying capability sets (SpecParse).  A string is the    *)
(* sequence of its characters.                                             *)
(***************************************************************************)
MaxTokens == 3

ArchiveStr == <<"a", "r", "c", "h", "i", "v", "e">>

TracesStr == <<"t", "r", "a", "c", "e", "s">>

TraceStr == <<"t", "r", "a", "c", "e">>

FullStr == <<"f", "u", "l", "l">>

FooStr == <<"f", "o", "o">>

\* s.split(","): the pieces between the commas; one (empty) piece for "".
RECURSIVE split(_)
split(s) ==
    IF \A i \in 1..Len(s) : s[i] # ","
    THEN <<s>>
    ELSE LET i == CHOOSE k \in 1..Len(s) :
                      s[k] = "," /\ \A j \in 1..(k - 1) : s[j] # ","
         IN  <<SubSeq(s, 1, i - 1)>> \o split(SubSeq(s, i + 1, Len(s)))

\* str::trim_start
RECURSIVE trim_start(_)
trim_start(s) ==
    IF s # <<>> /\ s[1] = " " THEN trim_start(Tail(s)) ELSE s

\* Compares the tokens after trimming their leading blanks.
from_str_trimmed(s) ==
    LET capabilities == split(s)
    IN  Ok([archive |-> \E i \in 1..Len(capabilities) :
                            trim_start(capabilities[i]) = ArchiveStr,
            traces |-> \E i \in 1..Len(capabilities) :
                            trim_start(capabilities[i]) = TracesStr])

\* impl FromStr for NodeCapabilities
from_str(s) ==
    LET capabilities == split(s)
    IN  Ok([archive |-> \E i \in 1..Len(capabilities) :
                            capabilities[i] = ArchiveStr,
            traces |-> \E i \in 1..Len(capabilities) :
                            capabilities[i] = TracesStr])

\* Writes the tokens the parser reads.
fmt_tokens(self) ==
    IF self.archive /\ self.traces THEN ArchiveStr \o <<",">> \o TracesStr
    ELSE IF self.traces THEN TracesStr
    ELSE IF self.archive THEN ArchiveStr
    ELSE <<>>

\* impl fmt::Display for NodeCapabilities
fmt(self) ==
    IF self.archive /\ self.traces THEN ArchiveStr \o <<",", " ">> \o TraceStr
    ELSE IF self.traces THEN FullStr \o <<",", " ">> \o TraceStr
    ELSE IF self.archive THEN ArchiveStr
    ELSE FullStr

\* The tokens the input strings are built from.
Vocabulary ==
    {ArchiveStr, TracesStr, FooStr, FullStr, <<>>, <<" ">> \o TraceStr,
     <<" ">> \o TracesStr}

RECURSIVE join(_)
join(tokens) ==
    IF Len(tokens) = 1 THEN tokens[1]
    ELSE tokens[1] \o <<",">> \o join(Tail(tokens))

\* The input strings: up to MaxTokens tokens separated by commas.
Inputs ==
    UNION {{join(tokens) : tokens \in [1..n -> Vocabulary]} : n \in 1..MaxTokens}

ParseInit ==
    /\ networks = new
    /\ last = Frozen
    /\ result = NoResult
    /\ run = NoRun

\* s.parse::<NodeCapabilities>()
FromStr(s) ==
    /\ result = NoResult
    /\ result' = [op |-> "from_str", name |-> "", required |-> NoEntry.capabilities,
                  value |-> [text |-> s, parsed |-> from_str(s)]]
    /\ UNCHANGED <<networks, last, run>>

\* format!("{}", capabilities)
Fmt(self) ==
    /\ result = NoResult
    /\ result' = [op |-> "fmt", name |-> "", required |-> self,
                  value |-> [text |-> fmt(self), parsed |-> None]]
    /\ UNCHANGED <<networks, last, run>>

\* Parses the string a capability set was displayed as.
FmtFromStr ==
    /\ result.op = "fmt"
    /\ result' = [result EXCEPT !.op = "fmt_from_str",
                                !.value.parsed = from_str(result.value.text)]
    /\ UNCHANGED <<networks, last, run>>

FromStrStep == \E s \in Inputs : FromStr(s)

FmtStep == \E self \in NodeCapabilities : Fmt(self)

ParseNext ==
    \/ FromStrStep
    \/ FmtStep
    \/ FmtFromStr

SpecParse == ParseInit /\ [][ParseNext]_vars

(***************************************************************************)
(* Properties of the registry operations (Spec).                           *)
(***************************************************************************)
\* Dominance as the specification defines it: a can serve a request for b.
Dominates(a, b) == (a.archive \/ ~b.archive) /\ (a.traces \/ ~b.traces)

StrictlyDominates(a, b) == Dominates(a, b) /\ a # b

\* Number of occurrences of entry e in a pool.
Count(pool, e) == Cardinality({i \in 1..Len(pool) : pool[i] = e})

\* All entries of a registry, whatever their network.
AllEntries(nets) ==
    UNION {{nets[n][i] : i \in 1..Len(nets[n])} : n \in DOMAIN nets}

\* The step just taken is the mutating operation op (reads leave a result).
IsStep(op) == result' = NoResult /\ last'.op = op

\* C5: after A.extend(B) the pool of every name of B is exactly B's pool
\* (for a name in both, none of A's entries remain), names only in A keep
\* their pool, and the names are those of A and B.
C5_ExtendReplaces ==
    [][IsStep("extend") =>
        /\ DOMAIN networks' = DOMAIN networks \cup DOMAIN last'.other
        /\ \A n \in DOMAIN last'.other : networks'[n] = last'.other[n]
        /\ \A n \in DOMAIN networks \ DOMAIN last'.other :
              networks'[n] = networks[n]]_vars

\* A pool of two entries was replaced by the one-entry pool of the other
\* registry.
C5_Witness ==
    /\ last.op = "extend"
    /\ \E n \in DOMAIN last.replaced :
          /\ last.replaced[n] = 2
          /\ Len(networks[n]) = 1
          /\ networks[n] = last.other[n]

\* C6: insert appends exactly the entry (capability, handle) at the end of
\* the pool of name, creating the pool if needed; the previous entries are
\* an unchanged prefix and every other pool is unchanged.
C6_InsertAppends ==
    [][IsStep("insert") =>
        LET n == last'.name
            before == IF n \in DOMAIN networks THEN networks[n] ELSE <<>>
        IN  /\ DOMAIN networks' = DOMAIN networks \cup {n}
            /\ Len(networks'[n]) = Len(before) + 1
            /\ networks'[n][Len(before) + 1] = last'.entry
            /\ \A i \in 1..Len(before) : networks'[n][i] = before[i]
            /\ \A m \in DOMAIN networks \ {n} : networks'[m] = networks[m]]_vars

\* An insert into a pool that already had an entry.
C6_Witness ==
    /\ last.op = "insert"
    /\ Len(networks[last.name]) >= 2
    /\ networks[last.name][Len(networks[last.name])] = last.entry

\* C7 as claimed: no step removes a network name or a pool entry.
C7_NothingDeleted ==
    [][/\ DOMAIN networks \subseteq DOMAIN networks'
       /\ AllEntries(networks) \subseteq AllEntries(networks')]_vars

\* C7 amended: no step removes a network name, and every pool keeps all its
\* entries (with their multiplicity) in every step, except the pools that an
\* extend replaces: those whose name is in the incoming registry.
C7_DeletedOnlyByExtend ==
    [][/\ DOMAIN networks \subseteq DOMAIN networks'
       /\ \A n \in DOMAIN networks :
             \/ IsStep("extend") /\ n \in DOMAIN last'.other
             \/ \A i \in 1..Len(networks[n]) :
                   Count(networks'[n], networks[n][i]) >=
                       Count(networks[n], networks[n][i])]_vars

\* An extend replaced one pool and left the pool of another name alone.
C7_Witness ==
    /\ last.op = "extend"
    /\ DOMAIN last.replaced # {}
    /\ DOMAIN networks \ DOMAIN last.other # {}

\* C8: after sort, cheapest() of a pool is the adapter of its first entry
\* (None only if the pool is empty), and no entry of the pool has a
\* capability the first entry strictly dominates.
C8_CheapestAfterSort ==
    (last.op = "sort" /\ result.op = "cheapest") =>
        LET pool == networks[result.name]
        IN  /\ (result.value = None) <=> (pool = <<>>)
            /\ pool # <<>> =>
                  /\ result.value = Some(pool[1].adapter)
                  /\ \A i \in 1..Len(pool) :
                        ~StrictlyDominates(pool[1].capabilities,
                                           pool[i].capabilities)

\* cheapest() on a sorted pool holding a more capable entry behind the first.
C8_Witness ==
    /\ last.op = "sort"
    /\ result.op = "cheapest"
    /\ \E i \in 2..Len(networks[result.name]) :
          StrictlyDominates(networks[result.name][i].capabilities,
                            networks[result.name][1].capabilities)

(***************************************************************************)
(* Properties of the capability ordering and of the reads (SpecLookup).    *)
(***************************************************************************)
ArchiveOnly == [archive |-> TRUE, traces |-> FALSE]

TracesOnly == [archive |-> FALSE, traces |-> TRUE]

\* The indices of the entries of a pool whose capability dominates required.
Eligible(pool, required) ==
    {i \in 1..Len(pool) : Dominates(pool[i].capabilities, required)}

\* The k-th smallest element of a set of indices.
Kth(I, k) == CHOOSE i \in I : Cardinality({j \in I : j <= i}) = k

\* C1: the filter a >= b is true exactly when a dominates b; it is false in
\* both directions for archive-only against traces-only.
C1_FilterIsDominance ==
    result.op = "cmp" =>
        /\ result.value.ge <=> Dominates(result.value.self, result.required)
        /\ {result.value.self, result.required} = {ArchiveOnly, TracesOnly} =>
              ~result.value.ge

\* archive-only >= traces-only was evaluated, and is false.
C1_Witness ==
    /\ result.op = "cmp"
    /\ result.value.self = ArchiveOnly
    /\ result.required = TracesOnly
    /\ ~result.value.ge

\* C2: sufficient_adapters returns exactly the dominating entries, each once
\* and in the pool's order; it fails with NoEligibleEndpoint iff there is
\* none; no endpoint is invoked (no call is started).
C2_SelectIsFilter ==
    result.op = "sufficient_adapters" =>
        LET pool == networks[result.name]
            I == Eligible(pool, result.required)
        IN  /\ (result.value.tag = "Err") <=> (I = {})
            /\ result.value.tag = "Err" =>
                  result.value.value =
                      [kind |-> "NoEligibleEndpoint", detail |-> result.required]
            /\ result.value.tag = "Ok" =>
                  /\ Len(result.value.value) = Cardinality(I)
                  /\ \A k \in 1..Cardinality(I) :
                        result.value.value[k] = pool[Kth(I, k)]
            /\ run.pc = "idle"

\* The pool [full, archive, traces, archive+traces] asked for traces gives
\* its third and fourth entries.
C2_Witness ==
    /\ result.op = "sufficient_adapters"
    /\ result.required = TracesOnly
    /\ Len(networks[result.name]) = 4
    /\ networks[result.name][1].capabilities = [archive |-> FALSE, traces |-> FALSE]
    /\ networks[result.name][2].capabilities = ArchiveOnly
    /\ networks[result.name][3].capabilities = TracesOnly
    /\ networks[result.name][4].capabilities = [archive |-> TRUE, traces |-> TRUE]
    /\ result.value = Ok(<<networks[result.name][3], networks[result.name][4]>>)

\* C3: cheapest_with returns the adapter of an entry that dominates required,
\* whatever the draw, and fails with NoEligibleEndpoint exactly when no entry
\* dominates it.
C3_CheapestWithIsEligible ==
    result.op = "cheapest_with" =>
        LET pool == networks[result.name]
            I == Eligible(pool, result.required)
        IN  /\ (result.value.tag = "Err") <=> (I = {})
            /\ result.value.tag = "Err" =>
                  result.value.value =
                      [kind |-> "NoEligibleEndpoint", detail |-> result.required]
            /\ result.value.tag = "Ok" =>
                  \E i \in I : pool[i].adapter = result.value.value

\* The draw returned an eligible entry other than the first eligible one, from
\* a pool that also holds an entry that is not eligible.
C3_Witness ==
    /\ result.op = "cheapest_with"
    /\ result.value.tag = "Ok"
    /\ LET pool == networks[result.name]
           I == Eligible(pool, result.required)
       IN  /\ I # 1..Len(pool)
           /\ \E i \in I : /\ pool[i].adapter = result.value.value
                           /\ i # Kth(I, 1)

\* C4: a lookup of an unregistered name fails with NetworkNotSupported(name)
\* whatever is required; of a registered name without a dominating entry,
\* with NoEligibleEndpoint(required); otherwise it succeeds with entries of
\* that network's pool only.
C4_LookupErrors ==
    result.op \in {"adapter_with_capabilities", "adapters_with_capabilities"} =>
        IF result.name \notin DOMAIN networks
        THEN result.value = Err("NetworkNotSupported", result.name)
        ELSE LET pool == networks[result.name]
                 I == Eligible(pool, result.required)
             IN  IF I = {}
                 THEN result.value = Err("NoEligibleEndpoint", result.required)
                 ELSE /\ result.value.tag = "Ok"
                      /\ result.op = "adapter_with_capabilities" =>
                            \E i \in I : pool[i].adapter = result.value.value
                      /\ result.op = "adapters_with_capabilities" =>
                            \A k \in 1..Len(result.value.value) :
                                \E i \in I : pool[i] = result.value.value[k]

\* A lookup of a name the registry lacks, while another name is registered.
C4_Witness ==
    /\ result.op = "adapters_with_capabilities"
    /\ result.name \notin DOMAIN networks
    /\ DOMAIN networks # {}
    /\ result.value = Err("NetworkNotSupported", result.name)

\* C20: cmp is Less in both directions for archive-only against
\* traces-only; on every other pair it is Equal exactly for equal sets,
\* Greater exactly when the first strictly dominates the second and Less
\* exactly when the second strictly dominates the first.
C20_CmpTable ==
    result.op = "cmp" =>
        LET a == result.value.self
            b == result.required
        IN  IF {a, b} = {ArchiveOnly, TracesOnly}
            THEN result.value.cmp = "Less"
            ELSE /\ result.value.cmp = "Equal" <=> a = b
                 /\ result.value.cmp = "Greater" <=> StrictlyDominates(a, b)
                 /\ result.value.cmp = "Less" <=> StrictlyDominates(b, a)

\* traces-only was compared with archive-only: Less, as is the comparison
\* the other way round.
C20_Witness ==
    /\ result.op = "cmp"
    /\ result.value.self = TracesOnly
    /\ result.required = ArchiveOnly
    /\ result.value.cmp = "Less"
    /\ cmp(result.required, result.value.self) = "Less"

(***************************************************************************)
(* Properties of the executor (SpecExec).                                  *)
(***************************************************************************)
\* The entries a call has invoked so far.
Invoked == {p[1] : p \in run.seen}

\* C9: a call never makes more attempts than the eligible pool (the pool the
\* lookup returned) has entries, whatever the attempts' outcomes.
C9_AttemptsBounded ==
    run.pc # "idle" => run.attempt_count <= Len(result.value.value)

\* A call on a pool of three that used all three attempts, some ended by the
\* timeout and some by an error.
C9_Witness ==
    /\ run.pc = "done"
    /\ Len(run.adapters) = 3
    /\ run.attempt_count = 3
    /\ \E i \in 1..3 : <<i, "timeout">> \in run.seen
    /\ \E i \in 1..3 : <<i, "error">> \in run.seen

\* C10 as claimed: on a pool of three eligible endpoints of which the first
\* two time out whenever invoked and the third succeeds whenever invoked, the
\* call succeeds within three attempts, each made against a different entry.
C10_RotatingAttempts ==
    (/\ run.pc = "done"
     /\ Len(run.adapters) = 3
     /\ \A p \in run.seen : p[1] \in {1, 2} => p[2] = "timeout"
     /\ \A p \in run.seen : p[1] = 3 => p[2] = "ok")
        => /\ run.value.tag = "Ok"
           /\ run.attempt_count <= 3
           /\ Cardinality(Invoked) = run.attempt_count

\* ---------------------------------------------------------------------------
\* Termination of a logical call.

\* C15: every logical call eventually returns, with a success or with an
\* error, whatever the endpoints do: an endpoint that never answers is ended
\* by the timeout of the attempt, and the number of attempts is bounded.
C15_CallReturns ==
    (run.pc \in {"ready", "waiting"}) ~> (run.pc = "done" /\ run.value # None)

\* A call of a pool of two entries has returned although no endpoint ever
\* answered: every attempt was ended by its timeout.
C15_Witness ==
    /\ run.pc = "done"
    /\ run.limit = 2
    /\ run.attempt_count = 2
    /\ run.seen = {<<1, "timeout">>}
    /\ run.abandoned = {1, 2}

\* ---------------------------------------------------------------------------
\* The error or the result a call returns.

\* Every attempt the call has made so far was ended by its timeout.
OnlyTimeouts == \A p \in run.seen : p[2] = "timeout"

\* C11 as claimed: whichever operation is forwarded, a call that used up its
\* attempts with every attempt ended by its timeout fails with the one
\* synthesized aggregate-timeout error of that operation, never with the
\* timeout error of its last attempt.
C11_TimeoutsAggregate ==
    (run.pc = "done" /\ run.attempt_count = run.limit /\ OnlyTimeouts)
        => /\ run.value.tag = "Err"
           /\ run.value.value.kind = "AggregateTimeout"
           /\ run.value.value.detail.op = run.op

\* C12: a call whose attempts are used up and whose last attempt failed with
\* a remote error fails with that error of that attempt, not with the
\* aggregate-timeout error, whatever the earlier attempts did.
C12_RemoteErrorUnchanged ==
    (run.pc = "done" /\ run.outcome = "error")
        => run.value = Err("Remote", [op |-> run.op, attempt |-> run.attempt_count])

\* load_full_block on a pool of three: an attempt timed out, the third attempt
\* failed with a remote error, and the call failed with the error of the third.
C12_Witness ==
    /\ run.pc = "done"
    /\ run.op = "load_full_block"
    /\ run.attempt_count = 3
    /\ run.outcome = "error"
    /\ <<1, "timeout">> \in run.seen
    /\ run.value.value.kind = "Remote"
    /\ run.value.value.detail.attempt = 3

\* C13: a step in which an attempt completes successfully ends the call with
\* the result of that attempt, and once an attempt has completed successfully
\* no further attempt starts and the result stays, even with attempts left.
C13_SuccessReturns ==
    [][/\ (run.pc = "waiting" /\ run'.outcome = "ok") =>
             /\ run'.pc = "done"
             /\ run'.attempt_count = run.attempt_count
             /\ run'.value = Ok(run.adapters[run.current].adapter)
       /\ (run.pc # "idle" /\ run.outcome = "ok") =>
             /\ run'.pc = "done"
             /\ run'.attempt_count = run.attempt_count
             /\ run'.value = run.value]_vars

\* latest_block on a pool of three returned the result of its second attempt:
\* one attempt of the budget was never made.
C13_Witness ==
    /\ run.pc = "done"
    /\ run.op = "latest_block"
    /\ run.limit = 3
    /\ run.attempt_count = 2
    /\ run.outcome = "ok"
    /\ run.value.tag = "Ok"

\* C14: when the lookup of the pool fails, because the name is not registered
\* or because no entry of its pool dominates the requirement, the error of
\* the lookup is what the caller gets and no call, hence no attempt, starts.
C14_SelectionFailureReturned ==
    (/\ result.op = "adapters_with_capabilities"
     /\ \/ result.name \notin DOMAIN networks
        \/ Eligible(networks[result.name], result.required) = {})
        => /\ result.value.tag = "Err"
           /\ result.value.value.kind \in {"NetworkNotSupported", "NoEligibleEndpoint"}
           /\ run.pc = "idle"

\* The pool of a registered name was looked up with a requirement that none
\* of its three entries dominates; no call was started.
C14_Witness ==
    /\ result.op = "adapters_with_capabilities"
    /\ result.name \in DOMAIN networks
    /\ Len(networks[result.name]) = 3
    /\ result.value = Err("NoEligibleEndpoint", result.required)
    /\ run.pc = "idle"

\* ---------------------------------------------------------------------------
\* The attempts of one call.

\* C16 (SpecCalls): at most one attempt of a call is awaited at a time, and an
\* attempt of a call starts only when no earlier attempt of that call is still
\* awaited: each earlier one has completed, failed or timed out.  The calls
\* of different callers interleave freely: a step of one call leaves every
\* other call as it is, and whatever the other calls are doing, a call that
\* is ready can start its attempt and an attempt that is awaited can end.
C16_AttemptsSequential ==
    [][\A c \in Callers :
          /\ run'[c].pc # "idle" => Cardinality(run'[c].pending) <= 1
          /\ (run[c].pc # "idle" /\ run'[c].attempt_count > run[c].attempt_count) =>
                /\ run[c].pending = {}
                /\ \A d \in Callers \ {c} : run'[d] = run[d]
          /\ run[c].pc = "ready" => ENABLED CallStartAttempt(c)
          /\ run[c].pc = "waiting" =>
                ENABLED CallAttemptOk(c) /\ ENABLED CallAttemptFails(c, "timeout")]_vars

\* block_range_to_ptrs of caller 1 awaits its second attempt, after a first
\* attempt that timed out, while load_block of caller 2 awaits its first
\* attempt: two attempts are in flight, one of each call.
C16_Witness ==
    /\ run[1].pc = "waiting"
    /\ run[1].op = "block_range_to_ptrs"
    /\ run[1].attempt_count = 2
    /\ run[1].pending = {2}
    /\ run[1].seen = {<<1, "timeout">>}
    /\ run[2].pc = "waiting"
    /\ run[2].op = "load_block"
    /\ run[2].pending = {1}

\* C17: the result a call returns is the result of an attempt that was still
\* awaited, never of one whose timeout had fired; the answer of an abandoned
\* attempt changes neither the result of the call nor its progress.
C17_LateResultDiscarded ==
    [][run.pc # "idle" =>
          /\ (run'.value # run.value /\ run'.value.tag = "Ok") =>
                run'.from \in run.pending \ run.abandoned
          /\ run.abandoned \ run'.abandoned # {} =>
                /\ run'.value = run.value
                /\ run'.pc = run.pc
                /\ run'.attempt_count = run.attempt_count]_vars

\* latest_block_header returned the result of its second attempt; the first
\* attempt timed out, and its answer came later and was dropped.
C17_Witness ==
    /\ run.pc = "done"
    /\ run.op = "latest_block_header"
    /\ run.value.tag = "Ok"
    /\ run.from = 2
    /\ run.seen = {<<1, "timeout">>, <<1, "ok">>}
    /\ run.abandoned = {}

(***************************************************************************)
(* Properties of parsing and display (SpecParse).                          *)
(***************************************************************************)
\* The word w is one of the comma-separated tokens of s, exactly.
HasToken(s, w) ==
    \E i \in 1..(Len(s) + 1) :
        LET j == i + Len(w) - 1
        IN  /\ j <= Len(s)
            /\ SubSeq(s, i, j) = w
            /\ i = 1 \/ s[i - 1] = ","
            /\ j = Len(s) \/ s[j + 1] = ","

\* The display string of each of the four capability sets.
CanonicalDisplay(c) ==
    IF c.archive /\ c.traces
    THEN <<"a", "r", "c", "h", "i", "v", "e", ",", " ", "t", "r", "a", "c", "e">>
    ELSE IF c.traces
    THEN <<"f", "u", "l", "l", ",", " ", "t", "r", "a", "c", "e">>
    ELSE IF c.archive
    THEN <<"a", "r", "c", "h", "i", "v", "e">>
    ELSE <<"f", "u", "l", "l">>

\* C18 as claimed: every capability set is displayed as its canonical string,
\* and parsing that string gives the capability set again.
C18_DisplayRoundTrip ==
    result.op = "fmt_from_str" =>
        /\ result.value.text = CanonicalDisplay(result.required)
        /\ result.value.parsed = Ok(result.required)

\* C18, amended: every capability set is displayed as its canonical string;
\* parsing that string gives the archive flag again and traces = false, so
\* it gives the capability set again exactly when the set has no traces.
C18_DisplayParse ==
    result.op = "fmt_from_str" =>
        /\ result.value.text = CanonicalDisplay(result.required)
        /\ result.value.parsed =
              Ok([archive |-> result.required.archive, traces |-> FALSE])
        /\ result.value.parsed = Ok(result.required) <=> ~result.required.traces

\* {archive, traces} was displayed as "archive, trace" and parsed back as
\* archive without traces.
C18_Witness ==
    /\ result.op = "fmt_from_str"
    /\ result.required = [archive |-> TRUE, traces |-> TRUE]
    /\ result.value.parsed = Ok([archive |-> TRUE, traces |-> FALSE])

\* C19: parsing never fails; archive is true exactly when some token is
\* exactly "archive" and traces exactly when some token is exactly "traces",
\* whatever the other tokens, the order and the repetitions; "archive,traces"
\* gives both, "" neither, "traces" traces only, "foo" neither.
C19_ParseTokens ==
    result.op = "from_str" =>
        LET s == result.value.text
            parsed == result.value.parsed
        IN  /\ parsed.tag = "Ok"
            /\ parsed.value.archive <=> HasToken(s, ArchiveStr)
            /\ parsed.value.traces <=> HasToken(s, TracesStr)
            /\ s = ArchiveStr \o <<",">> \o TracesStr =>
                  parsed.value = [archive |-> TRUE, traces |-> TRUE]
            /\ s = <<>> => parsed.value = [archive |-> FALSE, traces |-> FALSE]
            /\ s = TracesStr => parsed.value = [archive |-> FALSE, traces |-> TRUE]
            /\ s = FooStr => parsed.value = [archive |-> FALSE, traces |-> FALSE]

\* "traces,foo,archive" was parsed: both flags, with the tokens in the other
\* order and an unknown token between them.
C19_Witness ==
    /\ result.op = "from_str"
    /\ result.value.text = TracesStr \o <<",">> \o FooStr \o <<",">> \o ArchiveStr
    /\ result.value.parsed = Ok([archive |-> TRUE, traces |-> TRUE])

(***************************************************************************)
(* The endpoints a call invokes (SpecExec).                                *)
(***************************************************************************)
\* C21: every attempt of a call, the first one and every retry, is made
\* against the first entry of the pool the lookup returned; no other entry
\* of that pool is invoked, and a result the call returns is the result of
\* that first entry, although the attempt budget is the pool's length.
C21_FirstEntryOnly ==
    run.pc # "idle" =>
        /\ run.limit = Len(result.value.value)
        /\ run.adapters = result.value.value
        /\ \A p \in run.seen : p[1] = 1
        /\ run.pc = "waiting" => run.current = 1
        /\ run.value.tag = "Ok" =>
              run.value.value = result.value.value[1].adapter

\* is_on_main_chain on a pool of three made its three attempts, one ended by
\* an error and the others by the timeout, all against the first entry.
C21_Witness ==
    /\ run.pc = "done"
    /\ run.op = "is_on_main_chain"
    /\ Len(run.adapters) = 3
    /\ run.attempt_count = 3
    /\ run.seen = {<<1, "timeout">>, <<1, "error">>}
    /\ run.abandoned = {1, 3}

(***************************************************************************)
(* Pools are never empty (Spec).                                           *)
(***************************************************************************)
\* C22: in every registry built from new() by insert, extend and sort, every
\* registered name has a non-empty pool, and every pool a successful lookup
\* on that registry returns is non-empty: the attempt limit of a call on it
\* is at least 1 and the entry the closure takes exists.
C22_PoolsNonEmpty ==
    /\ \A n \in DOMAIN networks : Len(networks[n]) >= 1
    /\ result.op = "cheapest" => result.value # None
    /\ \A name \in Names, required \in NodeCapabilities :
          LET r == adapters_with_capabilities(networks, name, required)
          IN  r.tag = "Ok" =>
                 /\ Len(r.value) >= 1
                 /\ RetryLimit(r.value) >= 1
                 /\ TryIt(r.value) \in 1..Len(r.value)

\* A registry with both names that was just sorted: both pools are
\* non-empty, the lookup of archive on mainnet succeeds and the lookup of
\* traces on mainnet fails instead of returning an empty pool.
C22_Witness ==
    /\ last.op = "sort"
    /\ DOMAIN networks = Names
    /\ adapters_with_capabilities(networks, "mainnet", ArchiveOnly).tag = "Ok"
    /\ adapters_with_capabilities(networks, "mainnet", TracesOnly).tag = "Err"

(***************************************************************************)
(* A request reaches only endpoints of its network and capability          *)
(* (SpecExec).                                                             *)
(***************************************************************************)
\* The entries of the pool of a call that the call has invoked or is invoking.
InvokedEntries ==
    {run.adapters[i] :
        i \in Invoked \cup (IF run.pc = "waiting" THEN {run.current} ELSE {})}

\* C23: for a lookup of (name, required) followed by a call on the returned
\* pool, every entry invoked in an attempt is an entry of the pool registered
\* under that name and its capability dominates the requirement; a result
\* the call returns comes from such an entry.
C23_InvokedAreEligible ==
    run.pc # "idle" =>
        /\ result.name \in DOMAIN networks
        /\ \A e \in InvokedEntries :
              /\ \E i \in 1..Len(networks[result.name]) :
                    networks[result.name][i] = e
              /\ Dominates(e.capabilities, result.required)
        /\ run.value.tag = "Ok" =>
              \E i \in Eligible(networks[result.name], result.required) :
                  networks[result.name][i].adapter = run.value.value

\* calls_in_block on the mainnet entries with traces, with rinkeby registered
\* too: the first mainnet entry has no traces, so the entry invoked, which
\* answered, is the second of the registered pool.
C23_Witness ==
    /\ run.pc = "done"
    /\ run.op = "calls_in_block"
    /\ DOMAIN networks = Names
    /\ result.name = "mainnet"
    /\ result.required = TracesOnly
    /\ ~networks["mainnet"][1].capabilities.traces
    /\ run.value = Ok(networks["mainnet"][2].adapter)

=============================================================================
